---- MODULE Spec2Model ----
(***************************************************************************)
(* A model of the volatility-trading core of voltrade:                     *)
(*   position_manager.py   PositionManager (open / check / close / get)    *)
(*   volatility_tools.py   the Polson-Stern estimators and the signal      *)
(*   volatility_agent.py   VolatilityAgent.run and its entry / exit phases *)
(*   agent_types.py        the league profiles and AgentMemory             *)
(*   agent.py              execute_action_plan, which fills AgentMemory    *)
(*                                                                         *)
(* Python floats are modelled as exact rationals [n |-> num, d |-> den]    *)
(* in lowest terms with d > 0; None is the empty tuple and a present       *)
(* Optional value v is the one-element tuple <<v>>.                        *)
(***************************************************************************)
EXTENDS Integers, Sequences, FiniteSets, TLC

VARIABLES
    active_positions,  \* PositionManager.active_positions: key -> Position
    now,               \* datetime.utcnow(), in whole minutes
    last,              \* the last call or step: its arguments and what it returned
    hist,              \* per key, the last completed open or close (history variable)
    inp,               \* the arguments a volatility_tools function is applied to
    out,               \* what that function returned or raised, None before the call
    pc,                \* VolatilityAgent.run: where the loop stands
    events,            \* the rows get_active_events returned in this cycle
    pos,               \* <<index into events, side_index>> of the next evaluation
    total_pnl,         \* VolatilityAgent.total_pnl
    league_params,     \* the module-level dict LEAGUE_PARAMS as it stands now
    closed_in_cycle,   \* the keys check_exits has closed in the cycle of run under way
    memory,            \* AgentMemory: [actions, executions]
    mem_hist,          \* everything ever added to memory, and the plans executed (history variable)
    context            \* the last get_recent_context call: n and the list returned

toolVars == <<inp, out>>
agentVars == <<pc, events, pos, total_pnl, closed_in_cycle>>
memVars == <<memory, mem_hist, context>>
vars == <<active_positions, now, last, hist, inp, out, pc, events, pos, total_pnl, league_params, closed_in_cycle, memory, mem_hist, context>>

----------------------------------------------------------------------------
(* Exact rational arithmetic standing for Python float arithmetic.         *)

\* Each operator takes the values of its operands once (x \in {a}) and
\* computes with those.

Abs(i) == CHOOSE r \in {IF x < 0 THEN -x ELSE x : x \in {i}} : TRUE

RECURSIVE GCD(_, _)
GCD(a, b) == CHOOSE r \in {IF y = 0 THEN x ELSE GCD(y, x % y) : x \in {a}, y \in {b}} : TRUE

\* num / den in lowest terms, with a positive denominator
Rat(num, den) ==
    CHOOSE r \in { LET s == IF y < 0 THEN -1 ELSE 1
                       g == GCD(Abs(x), Abs(y))
                   IN  [n |-> (s * x) \div g, d |-> (s * y) \div g] :
                   x \in {num}, y \in {den} } : TRUE

R(i) == [n |-> i, d |-> 1]

RAdd(a, b) == CHOOSE r \in {Rat(x.n * y.d + y.n * x.d, x.d * y.d) : x \in {a}, y \in {b}} : TRUE
RSub(a, b) == CHOOSE r \in {Rat(x.n * y.d - y.n * x.d, x.d * y.d) : x \in {a}, y \in {b}} : TRUE
RMul(a, b) == CHOOSE r \in {Rat(x.n * y.n, x.d * y.d) : x \in {a}, y \in {b}} : TRUE
RDiv(a, b) == CHOOSE r \in {Rat(x.n * y.d, x.d * y.n) : x \in {a}, y \in {b}} : TRUE
RNeg(a) == CHOOSE r \in {[n |-> -x.n, d |-> x.d] : x \in {a}} : TRUE
RAbs(a) == CHOOSE r \in {[n |-> Abs(x.n), d |-> x.d] : x \in {a}} : TRUE
RLt(a, b) == \E x \in {a}, y \in {b} : x.n * y.d < y.n * x.d
RLe(a, b) == \E x \in {a}, y \in {b} : x.n * y.d <= y.n * x.d
RMin(a, b) == CHOOSE r \in {IF RLe(x, y) THEN x ELSE y : x \in {a}, y \in {b}} : TRUE

None == <<>>
Some(v) == <<v>>

----------------------------------------------------------------------------
(* agent_types.py: the league profiles.                                    *)

LEAGUE_PARAMS ==
    [l \in {"NFL", "NBA", "CBB"} |->
        CASE l = "NFL" -> [total_minutes |-> 60, vol_threshold |-> R(2),
                           size_multiplier |-> R(1), max_hold_time |-> R(15)]
          [] l = "NBA" -> [total_minutes |-> 48, vol_threshold |-> Rat(3, 2),
                           size_multiplier |-> Rat(4, 5), max_hold_time |-> R(12)]
          [] l = "CBB" -> [total_minutes |-> 40, vol_threshold |-> Rat(9, 5),
                           size_multiplier |-> Rat(3, 5), max_hold_time |-> R(10)]]

----------------------------------------------------------------------------
(* agent_types.py: AgentMemory.  An ActionPlan is [plan, action] and an    *)
(* ExecutionResult is [success, plan]; plan numbers the plan the object    *)
(* was made for and is not a field the program can read.                   *)

\* AgentMemory.max_memory (100 in the source)
max_memory == 3

\* AgentMemory.__init__
AgentMemory == [actions |-> <<>>, executions |-> <<>>]

\* Mutant of add_action: pop() in place of pop(0).
add_action_pops_newest(mem, action) ==
    [mem EXCEPT !.actions =
        IF Len(mem.actions) + 1 > max_memory THEN mem.actions
        ELSE Append(mem.actions, action)]

\* add_action: append, then pop(0) when the list is longer than max_memory
add_action(mem, action) ==
    [mem EXCEPT !.actions =
        IF Len(mem.actions) + 1 > max_memory THEN Tail(Append(mem.actions, action))
        ELSE Append(mem.actions, action)]

add_execution(mem, result) ==
    [mem EXCEPT !.executions =
        IF Len(mem.executions) + 1 > max_memory THEN Tail(Append(mem.executions, result))
        ELSE Append(mem.executions, result)]

\* seq[-n:] (the whole list for n = 0)
LastN(seq, n) ==
    IF n = 0 \/ n >= Len(seq) THEN seq ELSE SubSeq(seq, Len(seq) - n + 1, Len(seq))

\* get_recent_context: zip(actions[-n:], executions[-n:])
get_recent_context(mem, n) ==
    LET a == LastN(mem.actions, n)
        e == LastN(mem.executions, n)
    IN  [i \in 1..(IF Len(a) < Len(e) THEN Len(a) ELSE Len(e)) |->
            [action |-> a[i], result |-> e[i]]]

\* no get_recent_context call yet
NoContext == [n |-> -1, pairs |-> <<>>]

----------------------------------------------------------------------------
(* position_manager.py                                                     *)

\* The Position dataclass as open_position fills it in.
Position(t, event_id, league, side_index, position_type, size, live_vol, expected_vol, score_diff, current_prob, max_hold_time) ==
    [event_id |-> event_id,
     league |-> league,
     side_index |-> side_index,
     entry_time |-> t,
     position_type |-> position_type,
     size |-> size,
     initial_deviation |-> RAbs(RSub(live_vol, expected_vol)),
     initial_live_vol |-> live_vol,
     initial_expected_vol |-> expected_vol,
     entry_score_diff |-> score_diff,
     entry_prob |-> current_prob,
     max_hold_time |-> max_hold_time]

\* dict assignment  d[key] = value
DictSet(d, key, value) ==
    [k \in (DOMAIN d) \cup {key} |-> IF k = key THEN value ELSE d[k]]

\* dict.pop(key, None): the dict without the key
DictPop(d, key) == [k \in (DOMAIN d) \ {key} |-> d[k]]

\* dict.get(key): None when the key is missing
DictGet(d, key) == IF key \in DOMAIN d THEN Some(d[key]) ELSE None

\* open_position: the map after the call, what is returned, what is raised.
\* params is LEAGUE_PARAMS as it stands at the call; params[league] raises
\* KeyError before anything is stored; there is no check of the key's
\* present state.
open_position(params, positions, t, event_id, league, side_index, position_type, size, live_vol, expected_vol, score_diff, current_prob) ==
    IF league \notin DOMAIN params
    THEN [positions |-> positions, ret |-> None, exc |-> "KeyError"]
    ELSE LET max_hold_time == params[league].max_hold_time
             position == Position(t, event_id, league, side_index, position_type,
                                  size, live_vol, expected_vol, score_diff,
                                  current_prob, max_hold_time)
         IN  [positions |-> DictSet(positions, <<event_id, side_index>>, position),
              ret |-> Some(position),
              exc |-> "none"]

\* Mutant of HoldExpired: the limit is read from the league profile as it
\* stands at the check.
HoldExpired_reads_profile(position, t) ==
    RLe(league_params[position.league].max_hold_time, R(t - position.entry_time))

\* minutes_held >= position.max_hold_time, with utcnow() = t
HoldExpired(position, t) == RLe(position.max_hold_time, R(t - position.entry_time))

\* Mutant of check_exit_conditions: the time limit is tested before the
\* volatility triggers.
check_exit_conditions_time_first(positions, t, event_id, side_index, current_live_vol, current_expected_vol, time_elapsed, current_prob, score_diff) ==
    IF <<event_id, side_index>> \notin DOMAIN positions
    THEN <<FALSE, "">>
    ELSE LET position == positions[<<event_id, side_index>>]
             current_deviation == RAbs(RSub(current_live_vol, current_expected_vol))
             score_change == RAbs(RSub(score_diff, position.entry_score_diff))
         IN  IF HoldExpired(position, t)
             THEN <<TRUE, "TIME_BASED">>
             ELSE IF RLt(current_deviation, RMul(Rat(3, 10), position.initial_deviation))
             THEN <<TRUE, "MEAN_REVERSION">>
             ELSE IF RLt(RMul(Rat(3, 2), position.initial_deviation), current_deviation)
             THEN <<TRUE, "STOP_LOSS">>
             ELSE IF RLt(R(14), score_change)
             THEN <<TRUE, "GAME_STATE">>
             ELSE <<FALSE, "">>

\* check_exit_conditions: the (should_exit, reason) pair it returns at time t.
\* time_elapsed and current_prob are accepted and never read.
check_exit_conditions(positions, t, event_id, side_index, current_live_vol, current_expected_vol, time_elapsed, current_prob, score_diff) ==
    IF <<event_id, side_index>> \notin DOMAIN positions
    THEN <<FALSE, "">>
    ELSE LET position == positions[<<event_id, side_index>>]
             current_deviation == RAbs(RSub(current_live_vol, current_expected_vol))
             score_change == RAbs(RSub(score_diff, position.entry_score_diff))
         IN  IF RLt(current_deviation, RMul(Rat(3, 10), position.initial_deviation))
             THEN <<TRUE, "MEAN_REVERSION">>
             ELSE IF RLt(RMul(Rat(3, 2), position.initial_deviation), current_deviation)
             THEN <<TRUE, "STOP_LOSS">>
             ELSE IF HoldExpired(position, t)
             THEN <<TRUE, "TIME_BASED">>
             ELSE IF RLt(R(14), score_change)
             THEN <<TRUE, "GAME_STATE">>
             ELSE <<FALSE, "">>

\* Mutant of close_position: both sides of the event are removed.
close_position_whole_event(positions, event_id, side_index, exit_reason) ==
    [positions |-> DictPop(DictPop(positions, <<event_id, 0>>), <<event_id, 1>>),
     ret |-> DictGet(positions, <<event_id, side_index>>),
     exc |-> "none"]

\* Mutant of close_position: the record is looked up and left in the map.
close_position_keeps(positions, event_id, side_index, exit_reason) ==
    [positions |-> positions,
     ret |-> DictGet(positions, <<event_id, side_index>>),
     exc |-> "none"]

\* Mutant of close_position: the record is read after the key was removed.
close_position_reads_after_pop(positions, event_id, side_index, exit_reason) ==
    [positions |-> DictPop(positions, <<event_id, side_index>>),
     ret |-> None,
     exc |-> "none"]

\* Mutant of close_position: pop(key) without the None default.
close_position_strict(positions, event_id, side_index, exit_reason) ==
    IF <<event_id, side_index>> \in DOMAIN positions
    THEN [positions |-> DictPop(positions, <<event_id, side_index>>),
          ret |-> DictGet(positions, <<event_id, side_index>>),
          exc |-> "none"]
    ELSE [positions |-> positions, ret |-> None, exc |-> "KeyError"]

\* close_position: the map after the pop and the popped record (or None).
close_position(positions, event_id, side_index, exit_reason) ==
    [positions |-> DictPop(positions, <<event_id, side_index>>),
     ret |-> DictGet(positions, <<event_id, side_index>>),
     exc |-> "none"]

get_position(positions, event_id, side_index) ==
    DictGet(positions, <<event_id, side_index>>)

\* Mutant of has_position: the key looked up is that of side 0.
has_position_first_side(positions, event_id, side_index) ==
    <<event_id, 0>> \in DOMAIN positions

\* Mutant of has_position: no key is ever reported as held.
has_position_never(positions, event_id, side_index) == FALSE

has_position(positions, event_id, side_index) ==
    <<event_id, side_index>> \in DOMAIN positions

----------------------------------------------------------------------------
(* volatility_tools.py                                                     *)
(* A game clock text is a sequence of one-character strings.               *)

Digits == {"0", "1", "2", "3", "4", "5", "6", "7", "8", "9"}

DigitVal(c) ==
    CASE c = "0" -> 0 [] c = "1" -> 1 [] c = "2" -> 2 [] c = "3" -> 3
      [] c = "4" -> 4 [] c = "5" -> 5 [] c = "6" -> 6 [] c = "7" -> 7
      [] c = "8" -> 8 [] c = "9" -> 9

\* int(text) for a text of decimal digits
RECURSIVE ToInt(_)
ToInt(ds) ==
    IF ds = <<>> THEN 0
    ELSE 10 * ToInt(SubSeq(ds, 1, Len(ds) - 1)) + DigitVal(ds[Len(ds)])

\* the end of the longest run of digits of s that starts at i
RECURSIVE RunEnd(_, _)
RunEnd(s, i) ==
    IF i < Len(s) /\ s[i + 1] \in Digits THEN RunEnd(s, i + 1) ELSE i

\* re.search(r'(\d+):(\d+)', s): the two groups of the leftmost match, or None
ClockMatch(s) ==
    LET starts == {i \in 1..Len(s) :
                      /\ s[i] \in Digits
                      /\ RunEnd(s, i) + 2 <= Len(s)
                      /\ s[RunEnd(s, i) + 1] = ":"
                      /\ s[RunEnd(s, i) + 2] \in Digits}
    IN  IF starts = {} THEN None
        ELSE LET i == CHOOSE x \in starts : \A y \in starts : x <= y
                 e == RunEnd(s, i)
             IN  Some(<<SubSeq(s, i, e), SubSeq(s, e + 2, RunEnd(s, e + 2))>>)

\* sub in s
Contains(s, sub) ==
    \E i \in 1..Len(s) : i + Len(sub) - 1 <= Len(s) /\ SubSeq(s, i, i + Len(sub) - 1) = sub

\* The period parse_game_clock reads from the markers in the text.
ClockPeriod(s) ==
    IF Contains(s, <<"4", "Q">>) \/ Contains(s, <<"4", "t", "h">>) THEN 4
    ELSE IF Contains(s, <<"3", "Q">>) \/ Contains(s, <<"3", "r", "d">>) THEN 3
    ELSE IF \/ Contains(s, <<"2", "Q">>) \/ Contains(s, <<"2", "H">>)
            \/ Contains(s, <<"2", "n", "d">>) THEN 2
    ELSE 1

\* parse_game_clock: the fraction of the game elapsed, or None.  clock_str is
\* None or a text; the lookup of an unknown league raises inside the try and
\* the bare except answers None.
parse_game_clock(clock_str, league) ==
    IF clock_str = None \/ clock_str[1] = <<>> THEN None
    ELSE IF league \notin DOMAIN LEAGUE_PARAMS THEN None
    ELSE LET total_minutes == LEAGUE_PARAMS[league].total_minutes
             match == ClockMatch(clock_str[1])
         IN  IF match = None THEN None
             ELSE LET minutes == ToInt(match[1][1])
                      seconds == ToInt(match[1][2])
                      period == ClockPeriod(clock_str[1])
                      left == RAdd(R(minutes), Rat(seconds, 60))
                      period_length == Rat(total_minutes, IF period <= 4 THEN 4 ELSE 2)
                      time_elapsed ==
                          IF league \in {"NBA", "CBB"}
                          THEN RAdd(RMul(R(period - 1), period_length),
                                    RSub(period_length, left))
                          ELSE RSub(R(total_minutes), left)
                  IN  Some(RMin(R(1), RDiv(time_elapsed, R(total_minutes))))

\* get_probability_from_source: the probability of a price, or None.
\* source_price is None or <<price>>; comparing a missing price raises
\* inside the try and the bare except answers None.
get_probability_from_source(source_price, source_format) ==
    IF source_format \notin 1..5 THEN None
    ELSE IF source_price = None THEN None
    ELSE LET price == source_price[1]
         IN  IF source_format \in {3, 5}
             THEN IF RLt(R(0), price) /\ RLt(price, R(100))
                  THEN Some(RDiv(price, R(100))) ELSE None
             ELSE IF source_format = 4
             THEN IF RLt(R(0), price) /\ RLt(price, R(1)) THEN Some(price) ELSE None
             ELSE IF source_format = 2
             THEN IF RLt(R(1), price) THEN Some(RDiv(R(1), price)) ELSE None
             ELSE IF RLt(R(0), price)
             THEN Some(RDiv(R(100), RAdd(price, R(100))))
             ELSE Some(RDiv(RAbs(price), RAdd(RAbs(price), R(100))))

\* scipy.stats.norm.ppf on the probabilities the model uses, to two decimals:
\* ppf(0.5) = 0, ppf(0.8413) = 1.00, ppf(0.9772) = 2.00, and their mirror images.
NormPpf(p) ==
    CASE p = Rat(1, 2) -> R(0)
      [] p = Rat(1587, 10000) -> R(-1)
      [] p = Rat(8413, 10000) -> R(1)
      [] p = Rat(228, 10000) -> R(-2)
      [] p = Rat(9772, 10000) -> R(2)

\* abs(x) < 1 / e, for a whole number e
Tiny(x, e) == Abs(x.n) <= (x.d - 1) \div e

\* the integer square root of a perfect square
ISqrt(m) == CHOOSE k \in 0..m : k * k = m

\* math.sqrt on the rationals whose numerator and denominator are perfect squares
Sqrt(a) == Rat(ISqrt(a.n), ISqrt(a.d))

\* Mutant of compute_live_implied_vol: an omitted source_format is accepted.
compute_live_implied_vol_default_format(lead, pregame_spread, time_elapsed, current_prob, side_index, source_format) ==
    IF source_format \notin {None, Some(5)} THEN None
    ELSE IF RLe(R(1), time_elapsed) \/ RLe(current_prob, R(0)) \/ RLe(R(1), current_prob)
    THEN None
    ELSE LET remain == RSub(R(1), time_elapsed)
             spread == IF side_index = 1 THEN RNeg(pregame_spread) ELSE pregame_spread
             z == NormPpf(current_prob)
             numerator == RAdd(lead, RMul(spread, remain))
             denom == RMul(z, Sqrt(remain))
         IN  IF RLe(remain, R(0)) THEN None
             ELSE IF Tiny(z, 1000000) THEN None
             ELSE IF Tiny(denom, 1000000000) THEN None
             ELSE Some(RAbs(RDiv(numerator, denom)))

\* compute_live_implied_vol: |(l + mu (1 - t)) / (ppf(p) sqrt(1 - t))|, or None.
\* source_format is None (omitted) or <<format>>.
compute_live_implied_vol(lead, pregame_spread, time_elapsed, current_prob, side_index, source_format) ==
    IF source_format # Some(5) THEN None
    ELSE IF RLe(R(1), time_elapsed) \/ RLe(current_prob, R(0)) \/ RLe(R(1), current_prob)
    THEN None
    ELSE LET remain == RSub(R(1), time_elapsed)
             spread == IF side_index = 1 THEN RNeg(pregame_spread) ELSE pregame_spread
             z == NormPpf(current_prob)
             numerator == RAdd(lead, RMul(spread, remain))
             denom == RMul(z, Sqrt(remain))
         IN  IF RLe(remain, R(0)) THEN None
             ELSE IF Tiny(z, 1000000) THEN None
             ELSE IF Tiny(denom, 1000000000) THEN None
             ELSE Some(RAbs(RDiv(numerator, denom)))

\* compute_expected_vol: pregame_vol sqrt(1 - t), or None.
compute_expected_vol(pregame_vol, time_elapsed, league) ==
    IF RLe(R(1), time_elapsed) THEN None
    ELSE IF league \notin DOMAIN LEAGUE_PARAMS THEN None
    ELSE Some(RMul(pregame_vol, Sqrt(RSub(R(1), time_elapsed))))

\* compute_vol_deviation: the deviation in percent; the division raises
\* ZeroDivisionError when expected_vol is 0.
compute_vol_deviation(current_vol, expected_vol) ==
    IF expected_vol.n = 0
    THEN [exc |-> "ZeroDivisionError", ret |-> None]
    ELSE [exc |-> "none",
          ret |-> Some(RMul(RDiv(RSub(current_vol, expected_vol), expected_vol), R(100)))]

\* Mutant of check_vol_signal: the deviation is not compared with the
\* threshold before a direction is chosen.
check_vol_signal_no_threshold(live_vol, expected_vol, league, source_format) ==
    IF source_format # Some(5)
    THEN [exc |-> "none", ret |-> <<FALSE, "NO_ACTION", <<>>>>]
    ELSE IF league \notin DOMAIN LEAGUE_PARAMS
    THEN [exc |-> "none", ret |-> <<FALSE, "NO_ACTION", <<>>>>]
    ELSE LET threshold == LEAGUE_PARAMS[league].vol_threshold
             dev == compute_vol_deviation(live_vol, expected_vol)
         IN  IF dev.exc # "none" THEN [exc |-> dev.exc, ret |-> None]
             ELSE LET deviation == dev.ret[1]
                      metadata == [deviation |-> deviation, threshold |-> threshold,
                                   live_vol |-> live_vol, expected_vol |-> expected_vol]
                  IN  IF RLt(threshold, deviation)
                      THEN [exc |-> "none", ret |-> <<TRUE, "SELL_VOL", metadata>>]
                      ELSE [exc |-> "none", ret |-> <<TRUE, "BUY_VOL", metadata>>]

\* check_vol_signal: (should_trade, direction, metadata), or what it raises.
check_vol_signal(live_vol, expected_vol, league, source_format) ==
    IF source_format # Some(5)
    THEN [exc |-> "none", ret |-> <<FALSE, "NO_ACTION", <<>>>>]
    ELSE IF league \notin DOMAIN LEAGUE_PARAMS
    THEN [exc |-> "none", ret |-> <<FALSE, "NO_ACTION", <<>>>>]
    ELSE LET threshold == LEAGUE_PARAMS[league].vol_threshold
             dev == compute_vol_deviation(live_vol, expected_vol)
         IN  IF dev.exc # "none" THEN [exc |-> dev.exc, ret |-> None]
             ELSE LET deviation == dev.ret[1]
                      metadata == [deviation |-> deviation, threshold |-> threshold,
                                   live_vol |-> live_vol, expected_vol |-> expected_vol]
                  IN  IF RLt(RAbs(deviation), threshold)
                      THEN [exc |-> "none", ret |-> <<FALSE, "NO_ACTION", metadata>>]
                      ELSE IF RLt(threshold, deviation)
                      THEN [exc |-> "none", ret |-> <<TRUE, "SELL_VOL", metadata>>]
                      ELSE [exc |-> "none", ret |-> <<TRUE, "BUY_VOL", metadata>>]

\* Mutant of get_position_size: the volatility multiplier is not held at 2.
get_position_size_free_vol_mult(league, confidence, vol_diff) ==
    LET params == IF league \in DOMAIN LEAGUE_PARAMS THEN LEAGUE_PARAMS[league]
                  ELSE LEAGUE_PARAMS["NBA"]
        conf_mult == RMin(R(1), confidence)
        vol_mult == RDiv(RAbs(vol_diff), params.vol_threshold)
        size == RMul(RMul(RMul(R(5), params.size_multiplier), conf_mult), vol_mult)
    IN  RMin(R(20), size)

\* get_position_size: the size in percent of capital.  A league without a
\* profile is sized with the NBA profile.
get_position_size(league, confidence, vol_diff) ==
    LET params == IF league \in DOMAIN LEAGUE_PARAMS THEN LEAGUE_PARAMS[league]
                  ELSE LEAGUE_PARAMS["NBA"]
        conf_mult == RMin(R(1), confidence)
        vol_mult == RMin(R(2), RDiv(RAbs(vol_diff), params.vol_threshold))
        size == RMul(RMul(RMul(R(5), params.size_multiplier), conf_mult), vol_mult)
    IN  RMin(R(20), size)

----------------------------------------------------------------------------
(* volatility_agent.py                                                     *)
(* An event is one row of get_active_events: [event_id, league, game_clock,*)
(* score_diff, current_prob, spread_points, pregame_vol].  The reply of    *)
(* get_llm_response is [exc, confidence]: what it raises, and the value of *)
(* the 'confidence' field of the dict it returns (None: no such field).    *)

\* lead=score_diff: the lead handed to compute_live_implied_vol for a side
lead_argument(score_diff, side_index) == score_diff

\* Python's  not x  for an Optional float: None and 0.0 are both false
Falsy(x) == x = None \/ x[1].n = 0

NoAnalysis(why, confidence, exc) ==
    [exc |-> exc, ret |-> None, confidence |-> confidence, why |-> why]

\* Mutant of analyze_position: the confidence bar is not applied.
analyze_position_no_bar(event_id, league, side_index, game_clock, score_diff, current_prob, pregame_spread, pregame_vol, llm_response) ==
    LET time_elapsed == parse_game_clock(game_clock, league)
        live_vol == compute_live_implied_vol(lead_argument(score_diff, side_index), pregame_spread, time_elapsed[1], current_prob, side_index, Some(5))
        expected_vol == compute_expected_vol(pregame_vol, time_elapsed[1], league)
        signal == check_vol_signal(live_vol[1], expected_vol[1], league, Some(5))
        confidence == IF llm_response.confidence = None THEN R(0)
                      ELSE llm_response.confidence[1]
    IN  IF Falsy(time_elapsed) THEN NoAnalysis("no_time", None, "none")
        ELSE IF Falsy(live_vol) THEN NoAnalysis("no_live_vol", None, "none")
        ELSE IF Falsy(expected_vol) THEN NoAnalysis("no_expected_vol", None, "none")
        ELSE IF signal.exc # "none" THEN NoAnalysis("raised", None, signal.exc)
        ELSE IF ~signal.ret[1] THEN NoAnalysis("no_signal", None, "none")
        ELSE IF llm_response.exc # "none" THEN NoAnalysis("raised", None, llm_response.exc)
        ELSE [exc |-> "none",
              ret |-> Some([direction |-> signal.ret[2], confidence |-> confidence,
                            live_vol |-> live_vol[1], expected_vol |-> expected_vol[1],
                            metadata |-> signal.ret[3]]),
              confidence |-> Some(confidence),
              why |-> "trade"]

\* analyze_position: the analysis dict or None (ret), what propagates out of
\* it (exc), the confidence read from the reply when the advisory call was
\* made (confidence), and the return statement taken (why).
analyze_position(event_id, league, side_index, game_clock, score_diff, current_prob, pregame_spread, pregame_vol, llm_response) ==
    LET time_elapsed == parse_game_clock(game_clock, league)
        live_vol == compute_live_implied_vol(lead_argument(score_diff, side_index), pregame_spread, time_elapsed[1], current_prob, side_index, Some(5))
        expected_vol == compute_expected_vol(pregame_vol, time_elapsed[1], league)
        signal == check_vol_signal(live_vol[1], expected_vol[1], league, Some(5))
        confidence == IF llm_response.confidence = None THEN R(0)
                      ELSE llm_response.confidence[1]
    IN  IF Falsy(time_elapsed) THEN NoAnalysis("no_time", None, "none")
        ELSE IF Falsy(live_vol) THEN NoAnalysis("no_live_vol", None, "none")
        ELSE IF Falsy(expected_vol) THEN NoAnalysis("no_expected_vol", None, "none")
        ELSE IF signal.exc # "none" THEN NoAnalysis("raised", None, signal.exc)
        ELSE IF ~signal.ret[1] THEN NoAnalysis("no_signal", None, "none")
        ELSE IF llm_response.exc # "none" THEN NoAnalysis("raised", None, llm_response.exc)
        ELSE IF RLt(confidence, Rat(7, 10))
        THEN NoAnalysis("low_confidence", Some(confidence), "none")
        ELSE [exc |-> "none",
              ret |-> Some([direction |-> signal.ret[2], confidence |-> confidence,
                            live_vol |-> live_vol[1], expected_vol |-> expected_vol[1],
                            metadata |-> signal.ret[3]]),
              confidence |-> Some(confidence),
              why |-> "trade"]

\* Mutant of execute_trade: size_pct is not divided by 100.
execute_trade_pct_as_share(positions, t, initial_capital, event_id, league, side_index, direction, confidence, live_vol, expected_vol, score_diff, current_prob) ==
    LET vol_diff == compute_vol_deviation(live_vol, expected_vol)
    IN  IF vol_diff.exc # "none"
        THEN [exc |-> vol_diff.exc, positions |-> positions, size |-> None]
        ELSE LET size_pct == get_position_size(league, confidence, vol_diff.ret[1])
                 size == RMul(size_pct, initial_capital)
                 opened == open_position(league_params, positions, t, event_id, league, side_index,
                                         direction, size, live_vol, expected_vol,
                                         score_diff, current_prob)
             IN  [exc |-> opened.exc, positions |-> opened.positions,
                  size |-> Some(size)]

\* execute_trade: the position map after the call and what propagates out of
\* it.  The entry alert is formatted from floats only and send_alert catches
\* its own faults.
execute_trade(positions, t, initial_capital, event_id, league, side_index, direction, confidence, live_vol, expected_vol, score_diff, current_prob) ==
    LET vol_diff == compute_vol_deviation(live_vol, expected_vol)
    IN  IF vol_diff.exc # "none"
        THEN [exc |-> vol_diff.exc, positions |-> positions, size |-> None]
        ELSE LET size_pct == get_position_size(league, confidence, vol_diff.ret[1])
                 size == RMul(RDiv(size_pct, R(100)), initial_capital)
                 opened == open_position(league_params, positions, t, event_id, league, side_index,
                                         direction, size, live_vol, expected_vol,
                                         score_diff, current_prob)
             IN  [exc |-> opened.exc, positions |-> opened.positions,
                  size |-> Some(size)]

\* Mutant of realized_pnl: the sign is not reversed for SELL_VOL.
realized_pnl_unsigned(position, live_vol, expected_vol) ==
    RDiv(RMul(position.size,
              RSub(RAbs(RSub(position.initial_live_vol, position.initial_expected_vol)),
                   RAbs(RSub(live_vol, expected_vol)))),
         RAbs(RSub(position.initial_live_vol, position.initial_expected_vol)))

\* The PnL check_exits computes for a position that exits (entry_vol_diff is
\* not 0 here; the division by 0 is a branch of check_exits_one).
realized_pnl(position, live_vol, expected_vol) ==
    LET entry_vol_diff == RAbs(RSub(position.initial_live_vol, position.initial_expected_vol))
        exit_vol_diff == RAbs(RSub(live_vol, expected_vol))
        pnl == RDiv(RMul(position.size, RSub(entry_vol_diff, exit_vol_diff)), entry_vol_diff)
    IN  IF position.position_type = "SELL_VOL" THEN RNeg(pnl) ELSE pnl

\* One iteration of the loops of check_exits, for one event and one side:
\* the position map and total_pnl after it, what propagates out of it (exc),
\* and how it ended.  alert_fault: formatting the exit alert raises.
check_exits_one(positions, t, total, event, side_index, alert_fault) ==
    LET position == get_position(positions, event.event_id, side_index)
        time_elapsed == parse_game_clock(event.game_clock, event.league)
        live_vol == compute_live_implied_vol(lead_argument(event.score_diff, side_index), event.spread_points, time_elapsed[1], event.current_prob, side_index, Some(5))
        expected_vol == compute_expected_vol(event.pregame_vol, time_elapsed[1], event.league)
        verdict == check_exit_conditions(positions, t, event.event_id, side_index, live_vol[1], expected_vol[1], time_elapsed[1], event.current_prob, event.score_diff)
        entry_vol_diff == RAbs(RSub(position[1].initial_live_vol, position[1].initial_expected_vol))
        pnl == realized_pnl(position[1], live_vol[1], expected_vol[1])
        Skip(how) == [exc |-> "none", positions |-> positions, total |-> total,
                      how |-> how, reason |-> "", pnl |-> None]
    IN  IF position = None THEN Skip("no_position")
        ELSE IF Falsy(time_elapsed) THEN Skip("no_time")
        ELSE IF Falsy(live_vol) \/ Falsy(expected_vol) THEN Skip("no_vol")
        ELSE IF ~verdict[1] THEN Skip("hold")
        ELSE IF entry_vol_diff.n = 0
        THEN [exc |-> "ZeroDivisionError", positions |-> positions, total |-> total,
              how |-> "raised", reason |-> verdict[2], pnl |-> None]
        ELSE IF alert_fault
        THEN [exc |-> "AlertError", positions |-> positions,
              total |-> RAdd(total, pnl),
              how |-> "raised", reason |-> verdict[2], pnl |-> Some(pnl)]
        ELSE [exc |-> "none",
              positions |-> close_position(positions, event.event_id, side_index, verdict[2]).positions,
              total |-> RAdd(total, pnl),
              how |-> "closed", reason |-> verdict[2], pnl |-> Some(pnl)]

----------------------------------------------------------------------------
(* The callers of PositionManager: any sequence of calls, with the wall    *)
(* clock advancing between them.                                           *)

MaxNow == 12
TickMinutes == 12

Keys == {<<1, 0>>, <<1, 1>>, <<2, 0>>}

\* The arguments open_position is called with ("MLB" has no league profile).
Orders ==
    { [league |-> "NBA", position_type |-> "BUY_VOL", size |-> R(40),
       live_vol |-> R(8), expected_vol |-> R(10), score_diff |-> R(0),
       current_prob |-> Rat(2, 5)],
      [league |-> "NFL", position_type |-> "SELL_VOL", size |-> R(100),
       live_vol |-> R(14), expected_vol |-> R(10), score_diff |-> R(7),
       current_prob |-> Rat(3, 5)],
      [league |-> "MLB", position_type |-> "BUY_VOL", size |-> R(40),
       live_vol |-> R(8), expected_vol |-> R(10), score_diff |-> R(0),
       current_prob |-> Rat(2, 5)] }

\* The arguments check_exit_conditions is called with: deviations on both
\* sides of, and exactly at, 0.3 x and 1.5 x the initial deviations 2 and 4,
\* and score changes at and beyond 14.
CheckArgs ==
    [current_live_vol : {Rat(21, 2), Rat(53, 5), R(13), R(17)},
     current_expected_vol : {R(10)},
     time_elapsed : {Rat(1, 2)},
     current_prob : {Rat(1, 2)},
     score_diff : {R(14), R(22)}]

ExitReasons == {"TIME_BASED"}

\* last: op, key, args, ret and exc are the call and its outcome; at is the
\* wall clock at the call; prior is hist[key] before the call; rep is, for a
\* check that repeats the call before it, that call's <<[ret, at]>>.
NoCall == [op |-> "none", key |-> <<0, 0>>, args |-> <<>>, ret |-> None,
           exc |-> "none", prior |-> <<>>, at |-> 0, rep |-> None]

\* hist[k]: st is the key's state, order and at are the arguments and the
\* wall clock of the open_position that stored the position, hold is the
\* league profile's max_hold_time as it stood at that call.
Never == [st |-> "never", order |-> <<>>, at |-> 0, hold |-> R(0)]

NoInput == [fn |-> "none"]

Init ==
    /\ active_positions = <<>>
    /\ now = 0
    /\ last = NoCall
    /\ hist = [k \in Keys |-> Never]
    /\ inp = NoInput
    /\ out = None
    /\ pc = "idle"
    /\ events = <<>>
    /\ pos = <<0, 0>>
    /\ total_pnl = R(0)
    /\ league_params = LEAGUE_PARAMS
    /\ closed_in_cycle = {}
    /\ memory = AgentMemory
    /\ mem_hist = [actions |-> <<>>, executions |-> <<>>, plans |-> 0]
    /\ context = NoContext

OpenPosition(k, o) ==
    LET r == open_position(league_params, active_positions, now, k[1], o.league, k[2],
                           o.position_type, o.size, o.live_vol, o.expected_vol,
                           o.score_diff, o.current_prob)
    IN  /\ active_positions' = r.positions
        /\ last' = [op |-> "open", key |-> k, args |-> o, ret |-> r.ret,
                    exc |-> r.exc, prior |-> hist[k], at |-> now, rep |-> None]
        /\ hist' = IF r.exc = "none"
                   THEN [hist EXCEPT ![k] = [st |-> "open", order |-> o, at |-> now,
                              hold |-> league_params[o.league].max_hold_time]]
                   ELSE hist
        /\ UNCHANGED <<now, toolVars, agentVars, league_params, memVars>>

\* Mutant of the check_exit_conditions call: a position that should exit is
\* dropped from the map by the check itself.
CheckExitConditions_closes(k, a) ==
    LET ret == check_exit_conditions(active_positions, now, k[1], k[2],
                    a.current_live_vol, a.current_expected_vol,
                    a.time_elapsed, a.current_prob, a.score_diff)
    IN  /\ last' = [op |-> "check", key |-> k, args |-> a, ret |-> ret,
                    exc |-> "none", prior |-> hist[k], at |-> now,
                    rep |-> IF last.op = "check" /\ last.key = k /\ last.args = a
                            THEN Some([ret |-> last.ret, at |-> last.at])
                            ELSE None]
        /\ active_positions' = IF ret[1] THEN DictPop(active_positions, k)
                               ELSE active_positions
        /\ UNCHANGED <<now, hist, toolVars, agentVars, league_params, memVars>>

CheckExitConditions(k, a) ==
    /\ last' = [op |-> "check", key |-> k, args |-> a,
                ret |-> check_exit_conditions(active_positions, now, k[1], k[2],
                            a.current_live_vol, a.current_expected_vol,
                            a.time_elapsed, a.current_prob, a.score_diff),
                exc |-> "none", prior |-> hist[k], at |-> now,
                rep |-> IF last.op = "check" /\ last.key = k /\ last.args = a
                        THEN Some([ret |-> last.ret, at |-> last.at])
                        ELSE None]
    /\ UNCHANGED <<active_positions, now, hist, toolVars, agentVars, league_params, memVars>>

ClosePosition(k, reason) ==
    LET r == close_position(active_positions, k[1], k[2], reason)
    IN  /\ active_positions' = r.positions
        /\ last' = [op |-> "close", key |-> k, args |-> reason, ret |-> r.ret,
                    exc |-> r.exc, prior |-> hist[k], at |-> now, rep |-> None]
        /\ hist' = [hist EXCEPT ![k] =
                        IF @.st = "never" \/ r.exc # "none" THEN @
                        ELSE [st |-> "closed", order |-> <<>>, at |-> 0, hold |-> R(0)]]
        /\ UNCHANGED <<now, toolVars, agentVars, league_params, memVars>>

GetPosition(k) ==
    /\ last' = [op |-> "get", key |-> k, args |-> <<>>,
                ret |-> get_position(active_positions, k[1], k[2]),
                exc |-> "none", prior |-> hist[k], at |-> now, rep |-> None]
    /\ UNCHANGED <<active_positions, now, hist, toolVars, agentVars, league_params, memVars>>

HasPosition(k) ==
    /\ last' = [op |-> "has", key |-> k, args |-> <<>>,
                ret |-> has_position(active_positions, k[1], k[2]),
                exc |-> "none", prior |-> hist[k], at |-> now, rep |-> None]
    /\ UNCHANGED <<active_positions, now, hist, toolVars, agentVars, league_params, memVars>>

\* Wall-clock time passes between calls.
Tick ==
    /\ now + TickMinutes <= MaxNow
    /\ now' = now + TickMinutes
    /\ UNCHANGED <<active_positions, last, hist, toolVars, agentVars, league_params, memVars>>

Next ==
    \/ \E k \in Keys, o \in Orders : OpenPosition(k, o)
    \/ \E k \in Keys, a \in CheckArgs : CheckExitConditions(k, a)
    \/ \E k \in Keys, reason \in ExitReasons : ClosePosition(k, reason)
    \/ \E k \in Keys : GetPosition(k)
    \/ \E k \in Keys : HasPosition(k)
    \/ Tick

Spec == Init /\ [][Next]_vars

\* The values a league profile's max_hold_time is changed to: below and above
\* the minutes a position is held in this harness.
HoldTimes == {R(6), R(24)}

ProfileLeagues == {"NBA", "NFL"}

ProfileKeys == {<<1, 0>>}

\* LEAGUE_PARAMS[league]["max_hold_time"] = m, assigned while the manager runs.
SetMaxHoldTime(league, m) ==
    /\ league_params[league].max_hold_time # m
    /\ league_params' = [league_params EXCEPT ![league].max_hold_time = m]
    /\ UNCHANGED <<active_positions, now, last, hist, toolVars, agentVars, memVars>>

\* The manager's calls on one key, with the league profiles changing between
\* the calls.
NextProfile ==
    \/ \E k \in ProfileKeys, o \in Orders : OpenPosition(k, o)
    \/ \E k \in ProfileKeys, a \in CheckArgs : CheckExitConditions(k, a)
    \/ \E k \in ProfileKeys, reason \in ExitReasons : ClosePosition(k, reason)
    \/ \E league \in ProfileLeagues, m \in HoldTimes : SetMaxHoldTime(league, m)
    \/ Tick

SpecProfile == Init /\ [][NextProfile]_vars

----------------------------------------------------------------------------
(* What the specification says of PositionManager, stated over the calls   *)
(* recorded in last and hist.                                              *)

\* The record the specification expects under key k after an open_position
\* that ran with the arguments and at the time recorded in h.
Frozen(k, h) ==
    [event_id |-> k[1],
     league |-> h.order.league,
     side_index |-> k[2],
     entry_time |-> h.at,
     position_type |-> h.order.position_type,
     size |-> h.order.size,
     initial_deviation |->
        IF RLt(h.order.live_vol, h.order.expected_vol)
        THEN RSub(h.order.expected_vol, h.order.live_vol)
        ELSE RSub(h.order.live_vol, h.order.expected_vol),
     initial_live_vol |-> h.order.live_vol,
     initial_expected_vol |-> h.order.expected_vol,
     entry_score_diff |-> h.order.score_diff,
     entry_prob |-> h.order.current_prob,
     max_hold_time |-> LEAGUE_PARAMS[h.order.league].max_hold_time]

\* C1: open_position called for a key that already holds an open position is
\* rejected, and the record stored under the key is the one stored before.
C1_OpenOnOpenKeyRejected ==
    (last.op = "open" /\ last.prior.st = "open") =>
        /\ last.exc # "none"
        /\ last.key \in DOMAIN active_positions
        /\ active_positions[last.key] = Frozen(last.key, last.prior)

\* C2: a key holds a position exactly when its most recent completed
\* open_position has not been followed by a close_position; an OPEN key
\* holds exactly the one record built from that open's entry values, also
\* when the key was closed before and opened again.
C2_KeyLifecycle ==
    /\ DOMAIN active_positions \subseteq Keys
    /\ \A k \in Keys :
        /\ has_position(active_positions, k[1], k[2]) <=> hist[k].st = "open"
        /\ hist[k].st = "open" =>
              get_position(active_positions, k[1], k[2]) = Some(Frozen(k, hist[k]))
        /\ hist[k].st # "open" =>
              get_position(active_positions, k[1], k[2]) = None

\* C2 witness: a key that was closed has been opened again with new entry values.
C2_Witness ==
    /\ last.op = "open" /\ last.exc = "none" /\ last.prior.st = "closed"
    /\ last.at = TickMinutes
    /\ has_position(active_positions, last.key[1], last.key[2])
    /\ active_positions[last.key].entry_time = TickMinutes

\* C3: a check_exit_conditions call, whatever its key, arguments and result,
\* leaves the set of open keys and every stored position as they were.
C3_CheckIsPureQuery ==
    [][(last'.op = "check" /\ now' = now) =>
            active_positions' = active_positions]_vars

\* C3 witness: a check has answered should_exit = TRUE and the position is
\* still stored.
C3_Witness ==
    /\ last.op = "check" /\ last.ret[1] = TRUE
    /\ last.key \in DOMAIN active_positions
    /\ Cardinality(DOMAIN active_positions) >= 2

\* minutes since entry >= max_hold_time, at wall-clock time t
TimedOut(p, t) == (t - p.entry_time) * p.max_hold_time.d >= p.max_hold_time.n

\* C4 (as stated): two consecutive check_exit_conditions calls with identical
\* arguments and no open or close between them return the identical pair.
C4_RepeatedCheckSameResult ==
    (last.op = "check" /\ last.rep # None) => last.rep[1].ret = last.ret

\* C4 (amended): ... return the identical pair, provided the wall clock has
\* not reached entry_time + max_hold_time between the two calls.
C4_RepeatedCheckSameResultSameHold ==
    (/\ last.op = "check" /\ last.rep # None
     /\ last.key \in DOMAIN active_positions =>
            (TimedOut(active_positions[last.key], last.rep[1].at)
                <=> TimedOut(active_positions[last.key], last.at)))
    => last.rep[1].ret = last.ret

\* C4 witness: the call was repeated after the clock advanced, on a position
\* that had not timed out at either call, and answered the same non-exit.
C4_Witness ==
    /\ last.op = "check" /\ last.rep # None
    /\ last.key \in DOMAIN active_positions
    /\ last.rep[1].at < last.at
    /\ ~TimedOut(active_positions[last.key], last.at)
    /\ last.ret = <<FALSE, "">>

\* The four exit triggers of the specification for position p, the arguments
\* a of the call and the wall clock t of the call.
MeanReversion(p, a) ==
    RLt(RAbs(RSub(a.current_live_vol, a.current_expected_vol)),
        RMul(Rat(3, 10), p.initial_deviation))
StopLoss(p, a) ==
    RLt(RMul(Rat(3, 2), p.initial_deviation),
        RAbs(RSub(a.current_live_vol, a.current_expected_vol)))
GameState(p, a) == RLt(R(14), RAbs(RSub(a.score_diff, p.entry_score_diff)))

\* C5: for an OPEN key the call returns (TRUE, the first trigger that holds
\* in the order MEAN_REVERSION, STOP_LOSS, TIME_BASED, GAME_STATE), and
\* (FALSE, "") exactly when none holds.
C5_ExitPriority ==
    (last.op = "check" /\ last.key \in DOMAIN active_positions) =>
        LET p == active_positions[last.key]
            a == last.args
        IN  /\ MeanReversion(p, a) => last.ret = <<TRUE, "MEAN_REVERSION">>
            /\ (~MeanReversion(p, a) /\ StopLoss(p, a)) =>
                    last.ret = <<TRUE, "STOP_LOSS">>
            /\ (~MeanReversion(p, a) /\ ~StopLoss(p, a) /\ TimedOut(p, last.at)) =>
                    last.ret = <<TRUE, "TIME_BASED">>
            /\ (~MeanReversion(p, a) /\ ~StopLoss(p, a) /\ ~TimedOut(p, last.at)
                    /\ GameState(p, a)) => last.ret = <<TRUE, "GAME_STATE">>
            /\ last.ret = <<FALSE, "">> <=>
                    ~(MeanReversion(p, a) \/ StopLoss(p, a)
                        \/ TimedOut(p, last.at) \/ GameState(p, a))

\* C5 witness: MEAN_REVERSION and TIME_BASED both hold and the reason given
\* is MEAN_REVERSION.
C5_Witness ==
    /\ last.op = "check" /\ last.key \in DOMAIN active_positions
    /\ MeanReversion(active_positions[last.key], last.args)
    /\ TimedOut(active_positions[last.key], last.at)
    /\ last.ret = <<TRUE, "MEAN_REVERSION">>

\* C6: close_position on an OPEN key removes the key and returns the record
\* the opening call stored, every field as frozen at entry.
C6_CloseReturnsFrozenRecord ==
    (last.op = "close" /\ last.prior.st = "open") =>
        /\ ~has_position(active_positions, last.key[1], last.key[2])
        /\ get_position(active_positions, last.key[1], last.key[2]) = None
        /\ last.ret = Some(Frozen(last.key, last.prior))

\* C6 witness: a position opened at time 0 was closed after the clock advanced.
C6_Witness ==
    /\ last.op = "close" /\ last.prior.st = "open"
    /\ last.prior.at < last.at
    /\ last.ret # None

\* C7: close_position on an ABSENT key returns no record, raises nothing and
\* leaves the position map as it was.
C7_CloseAbsentIsNoOp ==
    [][(last'.op = "close" /\ now' = now
            /\ last'.key \notin DOMAIN active_positions) =>
        /\ last'.ret = None
        /\ last'.exc = "none"
        /\ active_positions' = active_positions]_vars

\* C7 witness: an ABSENT key was closed while other keys hold positions.
C7_Witness ==
    /\ last.op = "close" /\ last.prior.st # "open"
    /\ last.ret = None /\ last.exc = "none"
    /\ active_positions # <<>>

\* C20: the max_hold_time stored in a position is the league profile's
\* max_hold_time as it stood when open_position ran; a change of the profile
\* after that changes neither the stored value nor whether
\* check_exit_conditions answers TIME_BASED for the position.
C20_HoldTimeFrozenAtOpen ==
    /\ \A k \in DOMAIN active_positions :
            active_positions[k].max_hold_time = hist[k].hold
    /\ (/\ last.op = "check" /\ last.prior.st = "open"
        /\ last.key \in DOMAIN active_positions
        /\ ~MeanReversion(active_positions[last.key], last.args)
        /\ ~StopLoss(active_positions[last.key], last.args)) =>
            (last.ret = <<TRUE, "TIME_BASED">>
                <=> RLe(last.prior.hold, R(last.at - last.prior.at)))

\* C20 witness: the profile of an open position's league was changed after
\* the open to a limit the position has not reached, and the check answered
\* TIME_BASED by the limit stored at the open.
C20_Witness ==
    /\ last.op = "check" /\ last.prior.st = "open"
    /\ last.key \in DOMAIN active_positions
    /\ league_params[active_positions[last.key].league].max_hold_time
            # last.prior.hold
    /\ active_positions[last.key].max_hold_time = last.prior.hold
    /\ ~RLe(league_params[active_positions[last.key].league].max_hold_time,
            R(last.at - last.prior.at))
    /\ last.ret = <<TRUE, "TIME_BASED">>

\* C28: open_position, check_exit_conditions and close_position on one key
\* leave the presence and every stored field of every other key's position
\* unchanged, the other side of the same event included.
C28_OtherKeysUntouched ==
    [][last'.op \in {"open", "check", "close"} =>
          \A k \in Keys \ {last'.key} :
              /\ k \in DOMAIN active_positions' <=> k \in DOMAIN active_positions
              /\ k \in DOMAIN active_positions =>
                    active_positions'[k] = active_positions[k]]_vars

\* C28 witness: one side of an event was closed while the other side of the
\* event and a position of another event are stored.
C28_Witness ==
    /\ last.op = "close" /\ last.key = <<1, 0>> /\ last.ret # None
    /\ DOMAIN active_positions = {<<1, 1>>, <<2, 0>>}

----------------------------------------------------------------------------
(* The volatility_tools functions applied to arguments drawn from small    *)
(* sets: SpecTools draws the arguments in its initial state and the        *)
(* actions apply the function named in inp.fn.                             *)

Leagues == {"NFL", "NBA", "CBB", "MLB"}

\* source_format: omitted (None), the five known formats and an unknown one
Formats == {None} \cup {Some(f) : f \in 1..6}

\* live volatilities around an expected volatility of 10: deviations of
\* 0, +-1, +-1.5, +-1.8, +-2 and +-3 percent
SignalLiveVols == {Rat(x, 100) : x \in {970, 980, 982, 985, 990, 1000, 1010, 1015, 1018, 1020, 1030}}
SignalExpectedVols == {R(0), R(10)}

Probabilities == {R(0), Rat(1587, 10000), Rat(1, 2), Rat(8413, 10000), R(1)}
TimeFractions == {R(0), Rat(3, 4), R(1)}
Leads == {R(-3), R(0), R(3)}
Spreads == {R(-4), R(4)}

\* confidences below, at and above 1; deviations in percent from 0 to 100
\* times the league thresholds (1.5, 1.8, 2)
Confidences == {R(0), Rat(7, 10), R(1), Rat(3, 2)}
VolDiffs == {R(0), R(1), R(-3), R(15), R(-18), R(20), R(-20), R(200)}

\* game clock texts: "12:00 1Q", "7:23 4Q", "5:30 3Q", "8:45 2nd", "12:00 2H",
\* "15:00 1Q", "0:00 4Q", "20:00 1Q", "halftime", "" and a missing clock
Clocks ==
    { Some(<<"1", "2", ":", "0", "0", " ", "1", "Q">>),
      Some(<<"7", ":", "2", "3", " ", "4", "Q">>),
      Some(<<"5", ":", "3", "0", " ", "3", "Q">>),
      Some(<<"8", ":", "4", "5", " ", "2", "n", "d">>),
      Some(<<"1", "2", ":", "0", "0", " ", "2", "H">>),
      Some(<<"1", "5", ":", "0", "0", " ", "1", "Q">>),
      Some(<<"0", ":", "0", "0", " ", "4", "Q">>),
      Some(<<"2", "0", ":", "0", "0", " ", "1", "Q">>),
      Some(<<"h", "a", "l", "f", "t", "i", "m", "e">>),
      Some(<<>>),
      None }

PregameVols == {R(0), R(10)}

\* prices: negative, 0, between 0 and 1, 1, between 1 and 100, 100, above, missing
SourcePrices ==
    {None} \cup {Some(x) : x \in {R(-150), R(-100), R(0), Rat(1, 2), R(1), R(2),
                                  R(50), R(100), R(150)}}
SourceFormats == 0..6

ToolInputs ==
    [fn : {"check_vol_signal"}, live_vol : SignalLiveVols,
     expected_vol : SignalExpectedVols, league : Leagues, source_format : Formats]
    \cup
    [fn : {"compute_live_implied_vol"}, lead : Leads, pregame_spread : Spreads,
     time_elapsed : TimeFractions, current_prob : Probabilities,
     side_index : {0, 1}, source_format : Formats]
    \cup
    [fn : {"compute_vol_deviation"}, current_vol : SignalLiveVols,
     expected_vol : SignalExpectedVols]
    \cup
    [fn : {"get_position_size"}, league : Leagues, confidence : Confidences,
     vol_diff : VolDiffs]
    \cup
    [fn : {"parse_game_clock"}, clock_str : Clocks, league : Leagues]
    \cup
    [fn : {"get_probability_from_source"}, source_price : SourcePrices,
     source_format : SourceFormats]
    \cup
    [fn : {"compute_expected_vol"}, pregame_vol : PregameVols,
     time_elapsed : TimeFractions, league : Leagues]

InitTools ==
    /\ active_positions = <<>>
    /\ now = 0
    /\ last = NoCall
    /\ hist = [k \in Keys |-> Never]
    /\ inp \in ToolInputs
    /\ out = None
    /\ pc = "idle"
    /\ events = <<>>
    /\ pos = <<0, 0>>
    /\ total_pnl = R(0)
    /\ league_params = LEAGUE_PARAMS
    /\ closed_in_cycle = {}
    /\ memory = AgentMemory
    /\ mem_hist = [actions |-> <<>>, executions |-> <<>>, plans |-> 0]
    /\ context = NoContext

CallCheckVolSignal ==
    /\ out = None /\ inp.fn = "check_vol_signal"
    /\ out' = Some(check_vol_signal(inp.live_vol, inp.expected_vol, inp.league,
                                    inp.source_format))
    /\ UNCHANGED <<active_positions, now, last, hist, inp, agentVars, league_params, memVars>>

CallComputeLiveImpliedVol ==
    /\ out = None /\ inp.fn = "compute_live_implied_vol"
    /\ out' = Some([exc |-> "none",
                    ret |-> compute_live_implied_vol(inp.lead, inp.pregame_spread,
                                inp.time_elapsed, inp.current_prob, inp.side_index,
                                inp.source_format)])
    /\ UNCHANGED <<active_positions, now, last, hist, inp, agentVars, league_params, memVars>>

CallComputeVolDeviation ==
    /\ out = None /\ inp.fn = "compute_vol_deviation"
    /\ out' = Some(compute_vol_deviation(inp.current_vol, inp.expected_vol))
    /\ UNCHANGED <<active_positions, now, last, hist, inp, agentVars, league_params, memVars>>

CallGetPositionSize ==
    /\ out = None /\ inp.fn = "get_position_size"
    /\ out' = Some([exc |-> "none",
                    ret |-> Some(get_position_size(inp.league, inp.confidence, inp.vol_diff))])
    /\ UNCHANGED <<active_positions, now, last, hist, inp, agentVars, league_params, memVars>>

CallParseGameClock ==
    /\ out = None /\ inp.fn = "parse_game_clock"
    /\ out' = Some([exc |-> "none",
                    ret |-> parse_game_clock(inp.clock_str, inp.league)])
    /\ UNCHANGED <<active_positions, now, last, hist, inp, agentVars, league_params, memVars>>

CallGetProbabilityFromSource ==
    /\ out = None /\ inp.fn = "get_probability_from_source"
    /\ out' = Some([exc |-> "none",
                    ret |-> get_probability_from_source(inp.source_price, inp.source_format)])
    /\ UNCHANGED <<active_positions, now, last, hist, inp, agentVars, league_params, memVars>>

CallComputeExpectedVol ==
    /\ out = None /\ inp.fn = "compute_expected_vol"
    /\ out' = Some([exc |-> "none",
                    ret |-> compute_expected_vol(inp.pregame_vol, inp.time_elapsed, inp.league)])
    /\ UNCHANGED <<active_positions, now, last, hist, inp, agentVars, league_params, memVars>>

NextTools ==
    \/ CallCheckVolSignal
    \/ CallComputeLiveImpliedVol
    \/ CallComputeVolDeviation
    \/ CallGetPositionSize
    \/ CallParseGameClock
    \/ CallGetProbabilityFromSource
    \/ CallComputeExpectedVol

SpecTools == InitTools /\ [][NextTools]_vars

\* the deviation in percent as the specification defines it
DeviationPct(live_vol, expected_vol) ==
    Rat((live_vol.n * expected_vol.d - expected_vol.n * live_vol.d) * 100,
        live_vol.d * expected_vol.n)

\* C8: with the exchange format and a league with a profile, check_vol_signal
\* answers NO_ACTION when |deviation| < threshold, SELL_VOL only when
\* deviation > +threshold and BUY_VOL only when deviation < -threshold, for
\* every deviation, the values exactly at +threshold and -threshold included.
C8_SignalThresholds ==
    (/\ out # None /\ inp.fn = "check_vol_signal"
     /\ inp.source_format = Some(5) /\ inp.league \in DOMAIN LEAGUE_PARAMS
     /\ inp.expected_vol # R(0)) =>
        LET dev == DeviationPct(inp.live_vol, inp.expected_vol)
            threshold == LEAGUE_PARAMS[inp.league].vol_threshold
            r == out[1].ret
        IN  /\ out[1].exc = "none"
            /\ r[2] \in {"NO_ACTION", "SELL_VOL", "BUY_VOL"}
            /\ r[1] <=> r[2] # "NO_ACTION"
            /\ RLt(RAbs(dev), threshold) => r[2] = "NO_ACTION"
            /\ r[2] = "SELL_VOL" => RLt(threshold, dev)
            /\ r[2] = "BUY_VOL" => RLt(dev, RNeg(threshold))

\* C10: for every source_format other than the exchange format 5, an omitted
\* one included, compute_live_implied_vol returns None and check_vol_signal
\* returns (False, NO_ACTION), whatever the other arguments are.
C10_OnlyExchangeFormat ==
    (/\ out # None
     /\ inp.fn \in {"compute_live_implied_vol", "check_vol_signal"}
     /\ inp.source_format # Some(5)) =>
        /\ out[1].exc = "none"
        /\ inp.fn = "compute_live_implied_vol" => out[1].ret = None
        /\ inp.fn = "check_vol_signal" =>
              out[1].ret[1] = FALSE /\ out[1].ret[2] = "NO_ACTION"

\* C10 witness: compute_live_implied_vol was called without a source_format
\* on arguments that the exchange format gives a volatility for.
C10_Witness ==
    /\ out # None /\ inp.fn = "compute_live_implied_vol"
    /\ inp.source_format = None
    /\ compute_live_implied_vol(inp.lead, inp.pregame_spread, inp.time_elapsed,
                                inp.current_prob, inp.side_index, Some(5)) # None
    /\ out[1].ret = None

\* The call C11 is about: confidence 1.0, a league with size multiplier 1.0
\* and |vol_diff| = 10 x the league's threshold.
SizingCase ==
    /\ out # None /\ inp.fn = "get_position_size"
    /\ inp.league \in DOMAIN LEAGUE_PARAMS
    /\ LEAGUE_PARAMS[inp.league].size_multiplier = R(1)
    /\ inp.confidence = R(1)
    /\ RAbs(inp.vol_diff) = RMul(R(10), LEAGUE_PARAMS[inp.league].vol_threshold)

\* C11 as stated: for confidence 1.0, |deviation| = 10 x threshold and size
\* multiplier 1.0, get_position_size returns exactly 20.
C11_SizeCappedAtTwenty == SizingCase => out[1].ret = Some(R(20))

\* C11 amended: for that call the raw size is 5 x 1.0 x 1.0 x min(2, 10) = 10
\* and get_position_size returns exactly 10; whatever the arguments, the
\* returned size is between 0 and 20.
C11_SizeIsTenUnderTheCap ==
    (out # None /\ inp.fn = "get_position_size") =>
        /\ RLe(R(0), out[1].ret[1]) /\ RLe(out[1].ret[1], R(20))
        /\ SizingCase => out[1].ret = Some(R(10))

\* get_position_size("NFL", 1.0, -20.0) has returned.
C11_Witness == SizingCase /\ inp.vol_diff = R(-20) /\ out[1].ret = Some(R(10))

\* C14: a league without a profile is 'cannot evaluate' in every operation
\* that takes a league: parse_game_clock and compute_expected_vol return no
\* value, check_vol_signal returns NO_ACTION, get_position_size gives no size
\* and open_position stores no position; none of them raises.
C14_UnknownLeagueCannotEvaluate ==
    /\ (out # None /\ inp.fn \in {"parse_game_clock", "compute_expected_vol",
                                    "check_vol_signal", "get_position_size"}
                   /\ inp.league \notin DOMAIN LEAGUE_PARAMS) =>
          /\ out[1].exc = "none"
          /\ inp.fn = "check_vol_signal" =>
                out[1].ret[1] = FALSE /\ out[1].ret[2] = "NO_ACTION"
          /\ inp.fn # "check_vol_signal" => out[1].ret = None
    /\ (last.op = "open" /\ last.args.league \notin DOMAIN LEAGUE_PARAMS) =>
          /\ last.exc = "none"
          /\ last.ret = None
          /\ last.prior.st # "open" => last.key \notin DOMAIN active_positions

\* C15: for expected_vol = 0, compute_vol_deviation gives no value and
\* check_vol_signal gives NO_ACTION; neither raises.
C15_ZeroExpectedVolNoFault ==
    (/\ out # None
     /\ inp.fn \in {"compute_vol_deviation", "check_vol_signal"}
     /\ inp.expected_vol = R(0)) =>
        /\ out[1].exc = "none"
        /\ inp.fn = "compute_vol_deviation" => out[1].ret = None
        /\ inp.fn = "check_vol_signal" =>
              out[1].ret[1] = FALSE /\ out[1].ret[2] = "NO_ACTION"

\* C16: get_probability_from_source with the AMERICAN format (1) and price 0
\* returns no value; for every format and every price the result is no value
\* or a probability strictly between 0 and 1.
C16_ProbabilityInOpenUnitInterval ==
    (out # None /\ inp.fn = "get_probability_from_source") =>
        /\ out[1].exc = "none"
        /\ out[1].ret # None => RLt(R(0), out[1].ret[1]) /\ RLt(out[1].ret[1], R(1))
        /\ (inp.source_format = 1 /\ inp.source_price = Some(R(0))) => out[1].ret = None

\* C17: for a league with a profile, parse_game_clock returns no value or a
\* fraction f with 0 <= f <= 1, whatever the period marker and the minutes
\* and seconds of the clock text are.
C17_ClockFractionInUnitInterval ==
    (/\ out # None /\ inp.fn = "parse_game_clock"
     /\ inp.league \in DOMAIN LEAGUE_PARAMS) =>
        /\ out[1].exc = "none"
        /\ out[1].ret # None => RLe(R(0), out[1].ret[1]) /\ RLe(out[1].ret[1], R(1))

\* the period length the specification gives a league: a quarter of the
\* game, or half of it for the league played in halves
SpecPeriodLength(league) ==
    Rat(LEAGUE_PARAMS[league].total_minutes, IF league = "CBB" THEN 2 ELSE 4)

\* ((period - 1) x L + (L - (MM + SS/60))) / total_minutes clamped to [0, 1]
SpecClockFraction(text, league) ==
    LET match == ClockMatch(text)
        left == RAdd(R(ToInt(match[1][1])), Rat(ToInt(match[1][2]), 60))
        L == SpecPeriodLength(league)
        elapsed == RAdd(RMul(R(ClockPeriod(text) - 1), L), RSub(L, left))
        f == RDiv(elapsed, R(LEAGUE_PARAMS[league].total_minutes))
    IN  IF RLt(f, R(0)) THEN R(0) ELSE RMin(R(1), f)

\* C18: for every league with a profile and every period marker,
\* parse_game_clock returns ((period - 1) x L + (L - (MM + SS/60))) /
\* total_minutes clamped to [0, 1], with L = total_minutes / 4 for a league
\* played in quarters and total_minutes / 2 for one played in halves.
C18_ClockFractionFormula ==
    (/\ out # None /\ inp.fn = "parse_game_clock"
     /\ inp.league \in DOMAIN LEAGUE_PARAMS
     /\ inp.clock_str # None /\ ClockMatch(inp.clock_str[1]) # None) =>
        out[1].ret = Some(SpecClockFraction(inp.clock_str[1], inp.league))

----------------------------------------------------------------------------
(* VolatilityAgent.run: each cycle fetches the active events, runs         *)
(* check_exits over them, then looks for entries, one (event, side) at a   *)
(* time, and sleeps.  An exception anywhere in the cycle is caught by run  *)
(* and ends the cycle.                                                     *)

MaxEvents == 1

initial_capital == R(1000)

Row(event_id, league, game_clock, score_diff, pregame_vol) ==
    [event_id |-> event_id, league |-> league, game_clock |-> Some(game_clock),
     score_diff |-> R(score_diff), current_prob |-> Rat(8413, 10000),
     spread_points |-> R(-4), pregame_vol |-> R(pregame_vol)]

\* Rows of the events query: a game in its last quarter (time elapsed 3/4,
\* 15/16, 1), at its start (time elapsed 0), in a league without a profile,
\* and with a pregame volatility of 0.
Rows ==
    { Row(1, "NBA", <<"1", "2", ":", "0", "0", " ", "4", "Q">>, 3, 10),
      Row(1, "NBA", <<"3", ":", "0", "0", " ", "4", "Q">>, 3, 10),
      Row(1, "NBA", <<"0", ":", "0", "0", " ", "4", "Q">>, 3, 10),
      Row(2, "NFL", <<"1", "5", ":", "0", "0", " ", "1", "Q">>, 2, 8),
      Row(2, "NFL", <<"1", "5", ":", "0", "0", " ", "1", "Q">>, 3, 8),
      Row(2, "NFL", <<"6", "0", ":", "0", "0", " ", "1", "Q">>, 2, 8),
      Row(2, "NFL", <<"1", "5", ":", "0", "0", " ", "1", "Q">>, 2, 0),
      Row(3, "MLB", <<"1", "2", ":", "0", "0", " ", "4", "Q">>, 3, 10) }

\* What get_active_events returns: rows in event_id order (ORDER BY).
EventLists ==
    { evs \in UNION { [1..n -> Rows] : n \in 0..MaxEvents } :
        \A i \in 1..(Len(evs) - 1) : evs[i].event_id <= evs[i + 1].event_id }

\* What get_llm_response does: LLMTool() raises ValueError without an API
\* key; LLMTool.run answers a failed request, and a confidence that is not a
\* number, with confidence 0.0; otherwise the dict holds what the reply said,
\* with or without a 'confidence' field.
LLMReplies ==
    { [exc |-> "ValueError", confidence |-> None],
      [exc |-> "none", confidence |-> None] }
    \cup { [exc |-> "none", confidence |-> Some(c)] :
             c \in {R(0), Rat(69, 100), Rat(7, 10), Rat(3, 2)} }

InitAgent ==
    /\ active_positions = <<>>
    /\ now = 0
    /\ last = NoCall
    /\ hist = [k \in Keys |-> Never]
    /\ inp = NoInput
    /\ out = None
    /\ pc = "fetch"
    /\ events = <<>>
    /\ pos = <<0, 0>>
    /\ total_pnl = R(0)
    /\ league_params = LEAGUE_PARAMS
    /\ closed_in_cycle = {}
    /\ memory = AgentMemory
    /\ mem_hist = [actions |-> <<>>, executions |-> <<>>, plans |-> 0]
    /\ context = NoContext

\* the (event, side) after pos in  for event in events: for side_index in [0, 1]
NextPos == IF pos[2] = 0 THEN <<pos[1], 1>> ELSE <<pos[1] + 1, 0>>

\* events = self.get_active_events(); if not events: continue
Fetch(evs) ==
    /\ pc = "fetch"
    /\ events' = evs
    /\ pc' = IF evs = <<>> THEN "fetch" ELSE "exits"
    /\ pos' = IF evs = <<>> THEN <<0, 0>> ELSE <<1, 0>>
    /\ last' = [op |-> "fetch", exc |-> "none", slept |-> FALSE]
    /\ closed_in_cycle' = {}
    /\ UNCHANGED <<active_positions, now, hist, toolVars, total_pnl, league_params, memVars>>

\* get_active_events raises (the database cannot be opened or queried)
FetchFails ==
    /\ pc = "fetch"
    /\ pc' = "sleep"
    /\ last' = [op |-> "fetch", exc |-> "OperationalError", slept |-> FALSE]
    /\ UNCHANGED <<active_positions, now, hist, toolVars, events, pos, total_pnl, league_params, closed_in_cycle, memVars>>

\* what execute_trade gives when it is not called
NoTrade == [exc |-> "none", positions |-> <<>>, size |-> None]

\* one iteration of check_exits
ExitStep(alert_fault) ==
    /\ pc = "exits"
    /\ \E event \in {events[pos[1]]}, next \in {NextPos} :
         \E r \in {check_exits_one(active_positions, now, total_pnl, event, pos[2], alert_fault)} :
           /\ active_positions' = r.positions
           /\ total_pnl' = r.total
           /\ closed_in_cycle' = IF r.how = "closed"
                                 THEN closed_in_cycle \cup {<<event.event_id, pos[2]>>}
                                 ELSE closed_in_cycle
           /\ last' = [op |-> "exit", key |-> <<event.event_id, pos[2]>>,
                       event |-> event, how |-> r.how, reason |-> r.reason,
                       pnl |-> r.pnl, exc |-> r.exc,
                       lead |-> IF r.how \in {"no_position", "no_time"} THEN None
                                ELSE Some(lead_argument(event.score_diff, pos[2]))]
           /\ pc' = IF r.exc # "none" THEN "sleep"
                    ELSE IF next[1] > Len(events) THEN "entries" ELSE "exits"
           /\ pos' = IF r.exc # "none" THEN <<0, 0>>
                     ELSE IF next[1] > Len(events) THEN <<1, 0>> ELSE next
    /\ UNCHANGED <<now, hist, toolVars, events, league_params, memVars>>

\* one iteration of the entry loops of run
EntryStep(llm_response) ==
    /\ pc = "entries"
    /\ \E event \in {events[pos[1]]}, side_index \in {pos[2]}, next \in {NextPos} :
         \E held \in {has_position(active_positions, event.event_id, side_index)} :
         \E analysis \in {IF held THEN NoAnalysis("held", None, "none") ELSE analyze_position(event.event_id, event.league, side_index, event.game_clock, event.score_diff, event.current_prob, event.spread_points, event.pregame_vol, llm_response)} :
         \E trade \in {IF analysis.ret = None THEN NoTrade ELSE execute_trade(active_positions, now, initial_capital, event.event_id, event.league, side_index, analysis.ret[1].direction, analysis.ret[1].confidence, analysis.ret[1].live_vol, analysis.ret[1].expected_vol, event.score_diff, event.current_prob)} :
         \E exc \in {IF analysis.exc # "none" THEN analysis.exc ELSE trade.exc} :
           /\ active_positions' = IF analysis.ret = None THEN active_positions
                                  ELSE trade.positions
           /\ last' = [op |-> "entry", key |-> <<event.event_id, side_index>>,
                       event |-> event, how |-> analysis.why,
                       confidence |-> analysis.confidence, exc |-> exc,
                       lead |-> IF analysis.why \in {"held", "no_time"} THEN None
                                ELSE Some(lead_argument(event.score_diff, side_index))]
           /\ pc' = IF exc # "none" \/ next[1] > Len(events) THEN "sleep"
                    ELSE "entries"
           /\ pos' = IF exc # "none" \/ next[1] > Len(events) THEN <<0, 0>>
                     ELSE next
    /\ UNCHANGED <<now, hist, toolVars, events, total_pnl, league_params, closed_in_cycle, memVars>>

\* time.sleep(interval), with an interval of TickMinutes; the events of the
\* cycle are not used again.
Sleep ==
    /\ pc = "sleep"
    /\ now + TickMinutes <= MaxNow
    /\ now' = now + TickMinutes
    /\ pc' = "fetch"
    /\ events' = <<>>
    /\ last' = [op |-> "sleep", exc |-> "none", slept |-> TRUE]
    /\ UNCHANGED <<active_positions, hist, toolVars, pos, total_pnl, league_params, closed_in_cycle, memVars>>

NextAgent ==
    \/ \E evs \in EventLists : Fetch(evs)
    \/ FetchFails
    \/ \E alert_fault \in BOOLEAN : ExitStep(alert_fault)
    \/ \E llm_response \in LLMReplies : EntryStep(llm_response)
    \/ Sleep

SpecAgent == InitAgent /\ [][NextAgent]_vars

\* What get_active_events returns when the query yields two rows for one
\* event_id: SELECT DISTINCT drops equal rows, and event_id is not unique in
\* the joined result.
RepeatedLists ==
    { evs \in [1..2 -> {r \in Rows : r.event_id \in {1, 2}}] :
        evs[1].event_id = evs[2].event_id /\ evs[1] # evs[2] }

\* The cycles of run over event lists that repeat an event_id.
NextAgentRepeated ==
    \/ \E evs \in RepeatedLists : Fetch(evs)
    \/ FetchFails
    \/ \E alert_fault \in BOOLEAN : ExitStep(alert_fault)
    \/ \E llm_response \in LLMReplies : EntryStep(llm_response)
    \/ Sleep

SpecAgentRepeated == InitAgent /\ [][NextAgentRepeated]_vars

----------------------------------------------------------------------------
(* What the specification says of VolatilityAgent, stated over the steps   *)
(* of run recorded in last.                                                *)

\* C9: an entry evaluation in which analyze_position obtained a confidence
\* below 0.7 (a reply without the field, and the 0.0 of a failed request,
\* count as 0.0) leaves the position map as it was: no position is opened.
C9_LowConfidenceSuppressesTrade ==
    [][(/\ last'.op = "entry"
        /\ last'.confidence # None
        /\ RLt(last'.confidence[1], Rat(7, 10)))
       => active_positions' = active_positions]_vars

\* An evaluation with a deviation of +60% (threshold 1.5%) and a confidence
\* of 0.69 has run while the other side of the event is held: the key of the
\* evaluation is not in the map.
C9_Witness ==
    /\ last.op = "entry"
    /\ last.how = "low_confidence"
    /\ last.confidence = Some(Rat(69, 100))
    /\ last.key = <<1, 1>>
    /\ last.event.game_clock = Some(<<"1", "2", ":", "0", "0", " ", "4", "Q">>)
    /\ DOMAIN active_positions = {<<1, 0>>}

\* C12: every cycle of run is followed by the sleep before the next cycle
\* starts: a fetch that is not the first one comes directly after a sleep,
\* whether the cycle before it processed events, found none or ended in a
\* caught exception.
C12_SleepBetweenCycles ==
    [][(last'.op = "fetch" /\ last.op # "none") => last.op = "sleep"]_vars

\* C13: an evaluation that fails skips only its own event+side: after every
\* exit evaluation the cycle goes on to the next event+side for exit, or to
\* the entries when it was the last one, and after every entry evaluation
\* but the last the cycle goes on to the next event+side for entry.
C13_FailureSkipsOnlyThatSide ==
    [][/\ pc = "exits" =>
            IF NextPos[1] <= Len(events) THEN pc' = "exits" /\ pos' = NextPos
            ELSE pc' = "entries" /\ pos' = <<1, 0>>
       /\ (pc = "entries" /\ NextPos[1] <= Len(events)) =>
            pc' = "entries" /\ pos' = NextPos]_vars

\* C19: the lead handed to compute_live_implied_vol is signed for the side
\* evaluated: when side 0 and then side 1 of one event are evaluated in a
\* cycle, for entry or for exit, the lead used for side 1 is the negation of
\* the lead used for side 0.
C19_LeadSignedPerSide ==
    [][(/\ last.op \in {"entry", "exit"} /\ last'.op = last.op
        /\ last.key[2] = 0 /\ last'.key[2] = 1
        /\ last'.event = last.event
        /\ last.lead # None /\ last'.lead # None)
       => last'.lead[1] = RNeg(last.lead[1])]_vars

\* The deviation |live_vol - expected_vol| of the cycle in which event is
\* evaluated for side_index.
ExitDev(event, side_index) ==
    LET t == parse_game_clock(event.game_clock, event.league)[1]
    IN  RAbs(RSub(compute_live_implied_vol(event.score_diff, event.spread_points, t, event.current_prob, side_index, Some(5))[1],
                  compute_expected_vol(event.pregame_vol, t, event.league)[1]))

\* size x (entry_dev - exit_dev) / entry_dev
PnlShare(p, exit_dev) ==
    RDiv(RMul(p.size, RSub(p.initial_deviation, exit_dev)), p.initial_deviation)

\* C21: on every close performed by check_exits the PnL added to total_pnl
\* is size x (entry_dev - exit_dev) / entry_dev for a BUY_VOL position and
\* the negation of that for a SELL_VOL position.
C21_PnlOfAClose ==
    [][(last'.op = "exit" /\ last'.how = "closed") =>
          LET p == active_positions[last'.key]
              share == PnlShare(p, ExitDev(last'.event, last'.key[2]))
          IN  /\ p.initial_deviation = RAbs(RSub(p.initial_live_vol, p.initial_expected_vol))
              /\ p.position_type = "BUY_VOL" => total_pnl' = RAdd(total_pnl, share)
              /\ p.position_type = "SELL_VOL" => total_pnl' = RSub(total_pnl, share)]_vars

\* C21 witness: a SELL_VOL position was closed with a PnL that is not 0.
C21_Witness ==
    /\ last.op = "exit" /\ last.how = "closed"
    /\ last.key[2] = 1
    /\ last.pnl # None /\ last.pnl[1].n # 0
    /\ total_pnl = last.pnl[1]

\* The key of the (event, side) the loops of run stand at.
PosKey == <<events[pos[1]].event_id, pos[2]>>

C23_NoOpenOnOpenKey ==
    [][(pc = "entries" /\ active_positions' # active_positions) =>
          /\ PosKey \notin DOMAIN active_positions
          /\ DOMAIN active_positions' = DOMAIN active_positions \cup {PosKey}
          /\ \A k \in DOMAIN active_positions :
                active_positions'[k] = active_positions[k]]_vars

\* C23 witness: the second row of an event_id was evaluated for entry in the
\* cycle in which the first row opened the position, with a signal and a
\* confidence that would open a position, and was skipped as held.
C23_Witness ==
    /\ last.op = "entry" /\ last.how = "held"
    /\ last.key[2] = 1
    /\ Len(events) = 2
    /\ last.event.game_clock = Some(<<"1", "2", ":", "0", "0", " ", "4", "Q">>)
    /\ last.key \in DOMAIN active_positions
    /\ active_positions[last.key].entry_time = now
    /\ pc = "sleep"

\* C24: a position whose minutes held have reached its max_hold_time is
\* closed by the exit check of the next cycle, whatever the events of that
\* cycle are: when the exit phase of a cycle has run to its end, no stored
\* position has reached its max_hold_time.
C24_ExpiredHoldClosedByNextCycle ==
    [][(pc = "exits" /\ pc' = "entries") =>
          \A k \in DOMAIN active_positions' :
              ~HoldExpired(active_positions'[k], now)]_vars

\* C25: total_pnl is the sum of the PnL of the positions closed so far: it
\* changes only in a step of check_exits that removes the position it
\* computed the PnL of from the position map, and by that PnL, also when the
\* exit alert fails.
C25_PnlAddedOnlyWithTheClose ==
    [][total_pnl' # total_pnl =>
          /\ pc = "exits"
          /\ PosKey \in DOMAIN active_positions
          /\ PosKey \notin DOMAIN active_positions'
          /\ last'.pnl # None
          /\ total_pnl' = RAdd(total_pnl, last'.pnl[1])]_vars

\* C26: every position opened by VolatilityAgent has initial_deviation > 0,
\* and the PnL computation of check_exits never divides by zero.
C26_InitialDeviationPositive ==
    /\ \A k \in DOMAIN active_positions :
          RLt(R(0), active_positions[k].initial_deviation)
    /\ last.op = "exit" => last.exc # "ZeroDivisionError"

\* C26 witness: the PnL division was carried out for a position of side 0
\* while the position of side 1, opened by the agent, is still stored.
C26_Witness ==
    /\ last.op = "exit" /\ last.how = "closed" /\ last.key = <<1, 0>>
    /\ last.pnl # None
    /\ <<1, 1>> \in DOMAIN active_positions
    /\ RLt(R(0), active_positions[<<1, 1>>].initial_deviation)

\* C27: every position opened by VolatilityAgent has a size that is
\* strictly positive and at most 20% of initial_capital.
C27_SizeWithinTwentyPercent ==
    \A k \in DOMAIN active_positions :
        /\ RLt(R(0), active_positions[k].size)
        /\ RLe(active_positions[k].size, RMul(Rat(20, 100), initial_capital))

\* C27 witness: a position was opened on a confidence of 1.5 and a deviation
\* of 40 times the threshold.
C27_Witness ==
    /\ last.op = "entry" /\ last.how = "trade" /\ last.exc = "none"
    /\ last.confidence = Some(Rat(3, 2))
    /\ last.key = <<1, 1>>
    /\ last.key \in DOMAIN active_positions
    /\ active_positions[last.key].size = R(80)
    /\ active_positions[last.key].initial_deviation = R(3)

----------------------------------------------------------------------------
(* AgentMemory under its callers: add_action and add_execution called in   *)
(* any order (SpecMemory), and execute_action_plan of agent.py with        *)
(* get_recent_context between the executions (SpecPlans).                  *)

MaxAdds == 5

ActionKinds == {"BUY_VOL", "SELL_VOL"}

\* memory.add_action(plan), for the next plan made
AddAction(kind) ==
    /\ Len(mem_hist.actions) < MaxAdds
    /\ \E plan \in {[plan |-> Len(mem_hist.actions) + 1, action |-> kind]} :
         /\ memory' = add_action(memory, plan)
         /\ mem_hist' = [mem_hist EXCEPT !.actions = Append(@, plan)]
    /\ UNCHANGED <<active_positions, now, last, hist, toolVars, agentVars, league_params, context>>

\* memory.add_execution(result), for the next result made
AddExecution(success) ==
    /\ Len(mem_hist.executions) < MaxAdds
    /\ \E result \in {[success |-> success, plan |-> Len(mem_hist.executions) + 1]} :
         /\ memory' = add_execution(memory, result)
         /\ mem_hist' = [mem_hist EXCEPT !.executions = Append(@, result)]
    /\ UNCHANGED <<active_positions, now, last, hist, toolVars, agentVars, league_params, context>>

NextMemory ==
    \/ \E kind \in ActionKinds : AddAction(kind)
    \/ \E success \in BOOLEAN : AddExecution(success)

SpecMemory == Init /\ [][NextMemory]_vars

\* What trading_tool.run does with a plan: it reports success, reports a
\* failure, or raises.
TradeOutcomes == {"success", "failure", "raises"}

\* execute_action_plan(plan), for the next plan made: on success the plan
\* and a result are recorded, on failure a result only, and nothing when
\* the trade raises.
ExecuteActionPlan(kind, outcome) ==
    /\ mem_hist.plans < MaxAdds
    /\ \E plan \in {[plan |-> mem_hist.plans + 1, action |-> kind]} :
       \E result \in {[success |-> outcome = "success", plan |-> plan.plan]} :
         /\ memory' = IF outcome = "success"
                       THEN add_execution(add_action(memory, plan), result)
                       ELSE IF outcome = "failure" THEN add_execution(memory, result)
                       ELSE memory
         /\ mem_hist' = [actions |-> IF outcome = "success"
                                     THEN Append(mem_hist.actions, plan)
                                     ELSE mem_hist.actions,
                         executions |-> IF outcome = "raises" THEN mem_hist.executions
                                        ELSE Append(mem_hist.executions, result),
                         plans |-> mem_hist.plans + 1]
    /\ UNCHANGED <<active_positions, now, last, hist, toolVars, agentVars, league_params, context>>

\* memory.get_recent_context(n); fetch_and_analyze_event calls it with the
\* default n = 5.
GetRecentContext(n) ==
    /\ context' = [n |-> n, pairs |-> get_recent_context(memory, n)]
    /\ UNCHANGED <<active_positions, now, last, hist, toolVars, agentVars, league_params, memory, mem_hist>>

NextPlans ==
    \/ \E kind \in ActionKinds, outcome \in TradeOutcomes : ExecuteActionPlan(kind, outcome)
    \/ \E n \in 0..MaxAdds : GetRecentContext(n)

SpecPlans == Init /\ [][NextPlans]_vars

\* C29: get_recent_context(n) pairs each returned action with the execution
\* result that was produced for that same action, after any sequence of
\* successful and failed executions recorded through execute_action_plan.
C29_ContextPairsActionWithItsResult ==
    \A i \in DOMAIN context.pairs :
        context.pairs[i].result.plan = context.pairs[i].action.plan

\* the last k entries of seq, all of them when it holds fewer
Newest(seq, k) ==
    IF Len(seq) <= k THEN seq ELSE SubSeq(seq, Len(seq) - k + 1, Len(seq))

\* C30: after any sequence of add_action and add_execution calls, actions
\* and executions each hold at most max_memory entries, and those are the
\* most recently added ones in insertion order.
C30_MemoryKeepsTheNewest ==
    /\ Len(memory.actions) <= max_memory
    /\ Len(memory.executions) <= max_memory
    /\ memory.actions = Newest(mem_hist.actions, max_memory)
    /\ memory.executions = Newest(mem_hist.executions, max_memory)

\* C30 witness: two more actions and one more execution than max_memory
\* were added; the two oldest actions and the oldest execution are gone.
C30_Witness ==
    /\ Len(mem_hist.actions) = max_memory + 2
    /\ Len(mem_hist.executions) = max_memory + 1
    /\ Len(memory.actions) = max_memory
    /\ memory.actions[1].plan = 3
    /\ memory.executions[1].plan = 2
    /\ memory.executions[max_memory].plan = max_memory + 1

====
